---------------------------- MODULE Spec2Model ----------------------------
(***************************************************************************)
(* A model of the JSON reader: the UTF-8 codepoint decoder (src/utf8.rs),  *)
(* the streaming lexer with its one-character pushback                     *)
(* (src/json/lexer.rs) and the recursive-descent parser with its           *)
(* current/next token window (src/json.rs).                                *)
(*                                                                         *)
(* Bytes are integers 0..255, characters are Unicode code points, strings  *)
(* are sequences of code points.  The byte source is revealed chunk by     *)
(* chunk while the lexer pulls from it, so that every byte sequence that   *)
(* is a concatenation of at most MaxChunks chunks of the vocabulary is an  *)
(* input of the model.                                                     *)
(***************************************************************************)
EXTENDS Integers, Sequences, FiniteSets, TLC

(***************************************************************************)
(* Bounds of the model.                                                    *)
(***************************************************************************)
\* the number of vocabulary chunks an input is made of
MaxChunks == 6
\* the number of extra characters a lexeme may hold beyond the input's
\* length before the model stops recording them
LexemeSlack == 2

(***************************************************************************)
(* Fixed-width integer arithmetic.                                         *)
(***************************************************************************)
RECURSIVE Pow2(_)
Pow2(n) == IF n = 0 THEN 1 ELSE 2 * Pow2(n - 1)

\* x >> n
Shr(x, n) == x \div Pow2(n)

\* x << n on a u8: the bits shifted out of the low 8 are lost
Shl8(x, n) == (x * Pow2(n)) % 256

\* x << n on a u32; the decoder shifts payloads of at most 7 bits by at
\* most 18, so no bit leaves the 32
Shl32(x, n) == x * Pow2(n)

RECURSIVE BitOr(_, _)
BitOr(x, y) ==
    IF x = 0 THEN y
    ELSE IF y = 0 THEN x
    ELSE (IF x % 2 = 1 \/ y % 2 = 1 THEN 1 ELSE 0) + 2 * BitOr(x \div 2, y \div 2)

\* x & mask, for a mask of the form 2^k - 1
BitAndLow(x, mask) == x % (mask + 1)

(***************************************************************************)
(* src/utf8.rs                                                             *)
(***************************************************************************)
\* Option::None of the decoder
None == -1

get_head_type(head) ==
    IF Shr(head, 7) = 0 THEN "Single"
    ELSE IF Shr(head, 5) = 6 THEN "Double"
    ELSE IF Shr(head, 4) = 14 THEN "Triple"
    ELSE IF Shr(head, 3) = 30 THEN "Quad"
    ELSE "Unknown"

get_head_data(head) ==
    CASE get_head_type(head) = "Single" -> BitAndLow(head, 127)
      [] get_head_type(head) = "Double" -> BitAndLow(head, 31)
      [] get_head_type(head) = "Triple" -> BitAndLow(head, 15)
      [] get_head_type(head) = "Quad" -> BitAndLow(head, 7)
      [] OTHER -> None

tail_data(tail) == BitAndLow(tail % 256, 63)

tail_masked(tail, pos) == Shl32(tail_data(tail), 6 * (pos - 1))

\* char::from_u32: a scalar value is at most 0x10FFFF and no surrogate
char_from_u32(x) ==
    IF x > 1114111 \/ (x >= 55296 /\ x <= 57343) THEN None ELSE x

\* the number of bytes next_codepoint_head pulls with get_next after head
TailCount(head) ==
    CASE get_head_type(head) = "Double" -> 1
      [] get_head_type(head) = "Triple" -> 2
      [] get_head_type(head) = "Quad" -> 3
      [] OTHER -> 0

\* the 2-byte branch: the head payload is shifted as a u8, then widened
DoubleHead(head) == Shl8(get_head_data(head), 6)

\* the 4-byte branch: the head payload is widened, then shifted by 12
QuadHead(head) == Shl32(get_head_data(head), 12)

\* tails: the bytes get_next yields, in order (TailCount(head) of them)
next_codepoint_head(head, tails) ==
    IF Shr(head, 7) = 0 THEN head
    ELSE IF Shr(head, 5) = 6 THEN
        char_from_u32(BitOr(DoubleHead(head), tail_masked(tails[1], 1)))
    ELSE IF Shr(head, 4) = 14 THEN
        char_from_u32(BitOr(BitOr(Shl32(get_head_data(head), 12),
                                  tail_masked(tails[1], 2)),
                            tail_masked(tails[2], 1)))
    ELSE IF Shr(head, 3) = 30 THEN
        char_from_u32(BitOr(BitOr(BitOr(QuadHead(head),
                                        tail_masked(tails[1], 3)),
                                  tail_masked(tails[2], 2)),
                            tail_masked(tails[3], 1)))
    ELSE None


(***************************************************************************)
(* Character classes of the Rust standard library used by the lexer.       *)
(***************************************************************************)
\* is_whitespace narrowed to the space character
is_whitespace_space_only(c) == c = 32

\* char::is_whitespace: the Unicode White_Space property
is_whitespace(c) ==
    \/ c \in 9..13
    \/ c \in {32, 133, 160, 5760, 8232, 8233, 8239, 8287, 12288}
    \/ c \in 8192..8202

is_ascii_digit(c) == c \in 48..57

is_ascii_punctuation(c) ==
    c \in (33..47) \cup (58..64) \cup (91..96) \cup (123..126)

(***************************************************************************)
(* The inputs: every concatenation of at most MaxChunks of these chunks,    *)
(* the string without a closing quote only as the last one.                *)
(***************************************************************************)
Unterminated == <<34, 97>>        \* "a


Vocabulary ==
    { <<123>>,                    \* {
      <<125>>,                    \* }
      <<91>>,                     \* [
      <<93>>,                     \* ]
      <<44>>,                     \* ,
      <<58>>,                     \* :
      <<34, 97, 34, 58>>,         \* "a":
      <<34, 98, 34, 58>>,         \* "b":
      <<44, 34, 97, 34, 58>>,     \* ,"a":
      <<34, 97, 34>>,             \* "a"
      <<34, 92, 34>>,             \* "\"
      Unterminated,
      <<49>>,                     \* 1
      <<50>>,                     \* 2
      <<116, 114, 117, 101>>,     \* true
      <<102, 97, 108, 115, 101>>, \* false
      <<110, 117, 108, 108, 125>>,\* null}
      <<110, 117, 108, 108, 44>>, \* null,
      <<116>>,                    \* t
      <<97>>,                     \* a
      <<45>>,                     \* -
      <<32>>,                     \* space
      <<0>>,                      \* NUL
      <<195, 169>>,               \* U+00E9 in 2 bytes
      <<196, 128>>,               \* U+0100 in 2 bytes
      <<226, 130, 172>>,          \* U+20AC in 3 bytes
      <<240, 159, 152, 128>>,     \* U+1F600 in 4 bytes
      <<241, 128, 128, 128>>,     \* U+40000 in 4 bytes
      <<169>>,                    \* a continuation byte on its own
      <<195>> }                   \* a 2-byte lead on its own

\* the chunks of the inputs that end inside a string
StringVocabulary ==
    { <<123>>, <<125>>, <<91>>, <<93>>, <<44>>,
      <<34, 97, 34, 58>>, <<34, 97, 34>>, Unterminated, <<49>>,
      <<116, 114, 117, 101>> }

\* the chunks of the inputs with arrays of several elements
ArrayVocabulary ==
    { <<123, 34, 97, 34, 58, 91>>,  \* {"a":[
      <<91>>, <<93>>, <<125>>, <<44>>,
      <<34, 97, 34, 58>>, <<34, 97, 34>>, <<49>>, <<50>>,
      <<116, 114, 117, 101>>,
      <<93, 125>> }                 \* ]}

\* the chunks of the inputs with whitespace between tokens
SpaceVocabulary ==
    { <<123>>, <<125>>, <<91>>, <<44>>,
      <<34, 97, 34, 58>>, <<34, 97, 34>>, <<49>>,
      <<116, 114, 117, 101>>,
      <<32>>,                     \* space
      <<9>> }                     \* tab

(***************************************************************************)
(* State.                                                                  *)
(***************************************************************************)
VARIABLES
    file,         \* JsonLexer.file: the bytes of the source not yet read
    closed,       \* the source holds no byte beyond those in file
    fed,          \* the number of chunks the source has revealed
    consumed,     \* history: the bytes read from the source so far
    putback,      \* JsonLexer.putback
    has_putback,  \* JsonLexer.has_putback
    lexing,       \* the position and locals of a running next_token call
    current,      \* JsonParser.current
    next,         \* JsonParser.next
    cont,         \* the place in the parser that the running advance() returns to
    stack,        \* the parse_object / parse_array activations, innermost last
    status,       \* "running", or how parse() ended: "ok", "err", "panic"
    errmsg,       \* the Err text, or the panic message
    result,       \* the value of an Ok result
    lastRead,     \* history: what the last pull from the byte source gave
    log,          \* history: what the lexer and the parser rules did
    vocab,        \* the chunks the source is made of
    pass,         \* 1, or 2 in the parse of the input less its whitespace
    first         \* in pass 2: how pass 1 ended

envVars == <<file, closed, fed, consumed>>
lexVars == <<putback, has_putback, lexing>>
parVars == <<current, next, cont, stack>>
outVars == <<status, errmsg, result>>
vars == <<file, closed, fed, consumed, putback, has_putback, lexing,
          current, next, cont, stack, status, errmsg, result, lastRead, log,
          vocab, pass, first>>
runVars == <<vocab, pass, first>>

Take(s, n) == SubSeq(s, 1, n)
Drop(s, n) == SubSeq(s, n + 1, Len(s))

\* Token(lexeme, kind); src is history: the characters read for the token
Token(s, t, src) == [lex |-> s, type |-> t, src |-> src]

IdleLexer == [pc |-> "idle", s |-> <<>>, ch |-> 0, word |-> "", rest |-> <<>>,
              src |-> <<>>, spin |-> 0]

NoRead == [bytes |-> <<>>, res |-> "none", ch |-> 0, msg |-> "", atEnd |-> FALSE]

(***************************************************************************)
(* The byte source.  A pull is answered once the bytes it needs are in     *)
(* file or the source is closed.                                           *)
(***************************************************************************)
SourceReady ==
    \/ has_putback
    \/ closed
    \/ (file # <<>> /\ Len(file) >= 1 + TailCount(file[1]))

Starved == status = "running" /\ lexing.pc # "idle" /\ ~SourceReady

\* the source reveals its next chunk
Feed ==
    /\ Starved
    /\ fed < MaxChunks
    /\ \E c \in vocab :
          /\ file' = file \o c
          /\ closed' = (c = Unterminated)
    /\ fed' = fed + 1
    /\ UNCHANGED <<consumed, lexVars, parVars, outVars, lastRead, log, runVars>>

\* the source ends
EndOfSource ==
    /\ Starved
    /\ closed' = TRUE
    /\ UNCHANGED <<file, fed, consumed, lexVars, parVars, outVars, lastRead, log,
                   runVars>>

(***************************************************************************)
(* JsonLexer::next_char.  The result of the call in the current state:     *)
(* res is "Ok" (ch the character), "Err" (msg the text) or "Panic" (the    *)
(* unwrap of get_next on an exhausted source); used is the number of bytes *)
(* taken from the source.                                                  *)
(***************************************************************************)
\* a next_char that leaves has_putback as it is
has_putback_left_set == has_putback

\* lines 60-61: has_putback once next_char has returned
has_putback_after_next_char == IF has_putback THEN FALSE ELSE has_putback

next_char ==
    IF has_putback THEN
        [res |-> "Ok", ch |-> putback, msg |-> "", used |-> 0, pulled |-> FALSE]
    ELSE IF file = <<>> THEN
        [res |-> "Ok", ch |-> 0, msg |-> "", used |-> 0, pulled |-> TRUE]
    ELSE IF Len(file) < 1 + TailCount(file[1]) THEN
        [res |-> "Panic", ch |-> 0,
         msg |-> "called Option::unwrap() on a None value",
         used |-> Len(file), pulled |-> TRUE]
    ELSE
        LET cp == next_codepoint_head(file[1], SubSeq(file, 2, 1 + TailCount(file[1])))
        IN  IF cp = None
            THEN [res |-> "Err", ch |-> 0, msg |-> "Invalid UTF-8",
                  used |-> 1 + TailCount(file[1]), pulled |-> TRUE]
            ELSE [res |-> "Ok", ch |-> cp, msg |-> "",
                  used |-> 1 + TailCount(file[1]), pulled |-> TRUE]

\* the source has run out under the pull that is about to be made
AtEnd == file = <<>> \/ Len(file) < 1 + TailCount(file[1])

\* the effect of a next_char call with result r on the source and its history
Pull(r) ==
    /\ file' = Drop(file, r.used)
    /\ consumed' = consumed \o Take(file, r.used)
    /\ lastRead' = IF r.pulled
                   THEN [bytes |-> Take(file, r.used), res |-> r.res, ch |-> r.ch,
                         msg |-> r.msg, atEnd |-> AtEnd]
                   ELSE lastRead
    /\ UNCHANGED <<closed, fed>>

(***************************************************************************)
(* What one step of next_token comes to: it returns Ok(tok) to advance     *)
(* ("Token"), returns Err(msg) ("Err"), panics ("Panic") or goes on at     *)
(* lx ("Go").  hp and pb are has_putback and putback after the step.       *)
(***************************************************************************)
OTok(tok, hp, pb) == [k |-> "Token", tok |-> tok, hp |-> hp, pb |-> pb]
OGo(lx, hp, pb) == [k |-> "Go", lx |-> lx, hp |-> hp, pb |-> pb]
OErr(msg, hp, pb) == [k |-> "Err", msg |-> msg, hp |-> hp, pb |-> pb]
OPanic(msg, hp, pb) == [k |-> "Panic", msg |-> msg, hp |-> hp, pb |-> pb]

\* a putback that does not keep the character
putback_call_dropping(ch, hp) == [panic |-> hp, hp |-> hp, pb |-> putback]

\* JsonLexer::putback(ch), called with has_putback = hp
putback_call(ch, hp) ==
    IF hp THEN [panic |-> TRUE, hp |-> hp, pb |-> putback]
    ELSE [panic |-> FALSE, hp |-> TRUE, pb |-> ch]

\* String::push on the lexeme; a lexeme longer than the input read so far
\* by LexemeSlack characters is no longer recorded
Saturated(s) == Len(s) >= Len(consumed) + Len(file) + LexemeSlack
Push(s, c) == IF Saturated(s) THEN s ELSE Append(s, c)

\* the whitespace characters the parsed result is compared across
PlainSpace == {32, 9, 10, 13}

(***************************************************************************)
(* JsonLexer::next_token, lines 120-192: the first character of a token.   *)
(***************************************************************************)
SingleCharKind(c) ==
    CASE c = 123 -> "LeftBrace"
      [] c = 125 -> "RightBrace"
      [] c = 91 -> "LeftBracket"
      [] c = 93 -> "RightBracket"
      [] c = 44 -> "Comma"
      [] c = 58 -> "Colon"
      [] OTHER -> "None"

StartOutcome(c) ==
    IF SingleCharKind(c) # "None" THEN
        OTok(Token(<<c>>, SingleCharKind(c), <<c>>), has_putback_after_next_char, putback)
    ELSE IF c = 34 THEN
        OGo([IdleLexer EXCEPT !.pc = "string"], has_putback_after_next_char, putback)
    ELSE IF c \in 48..57 THEN
        OGo([IdleLexer EXCEPT !.pc = "number", !.s = <<c>>, !.ch = c, !.src = <<c>>],
            has_putback_after_next_char, putback)
    ELSE IF c = 116 THEN
        OGo([IdleLexer EXCEPT !.pc = "keyword", !.word = "true",
                              !.rest = <<114, 117, 101>>],
            has_putback_after_next_char, putback)
    ELSE IF c = 102 THEN
        OGo([IdleLexer EXCEPT !.pc = "keyword", !.word = "false",
                              !.rest = <<97, 108, 115, 101>>],
            has_putback_after_next_char, putback)
    ELSE IF c = 110 THEN
        OGo([IdleLexer EXCEPT !.pc = "keyword", !.word = "null",
                              !.rest = <<117, 108, 108>>],
            has_putback_after_next_char, putback)
    ELSE IF c = 0 THEN
        OTok(Token(<<>>, "EOF", <<>>), has_putback_after_next_char, putback)
    ELSE IF is_whitespace(c) THEN
        OGo([IdleLexer EXCEPT !.pc = "start"], has_putback_after_next_char, putback)
    ELSE IF is_ascii_punctuation(c) THEN
        OErr("unexpected punctuation", has_putback_after_next_char, putback)
    ELSE
        OErr("unexpected character", has_putback_after_next_char, putback)

\* the outcome of a step that begins with `self.next_char()?`
AfterNextChar(r, ok) ==
    CASE r.res = "Panic" -> OPanic(r.msg, has_putback_after_next_char, putback)
      [] r.res = "Err" -> OErr(r.msg, has_putback_after_next_char, putback)
      [] OTHER -> ok

(***************************************************************************)
(* lines 132-142: one turn of the string loop                              *)
(***************************************************************************)
StringOutcome(c) ==
    IF c = 34
    THEN OTok(Token(lexing.s, "String", lexing.s), has_putback_after_next_char, putback)
    ELSE OGo([lexing EXCEPT !.s = Push(@, c),
                            !.spin = IF Saturated(lexing.s) THEN 1 - @ ELSE @],
             has_putback_after_next_char, putback)

(***************************************************************************)
(* lines 143-154: one turn of the digit loop, `s.push(ch)` first           *)
(***************************************************************************)
NumberLexeme == Push(lexing.s, lexing.ch)

NumberOutcome(c) ==
    IF is_ascii_digit(c) THEN
        OGo([lexing EXCEPT !.s = NumberLexeme, !.ch = c, !.src = Append(@, c)],
            has_putback_after_next_char, putback)
    ELSE
        LET p == putback_call(c, has_putback_after_next_char)
        IN  IF p.panic THEN OPanic("putback called twice", p.hp, p.pb)
            ELSE OTok(Token(NumberLexeme, "Number", lexing.src), p.hp, p.pb)

(***************************************************************************)
(* JsonLexer::try_match_char(ch), lines 87-110: matched, the next_char     *)
(* result r it rests on (none when a character is pushed back), and the    *)
(* pushback slot after it.                                                 *)
(***************************************************************************)
NoPull == [res |-> "Ok", ch |-> 0, msg |-> "", used |-> 0, pulled |-> FALSE]

try_match_char(ch) ==
    IF has_putback THEN
        IF putback = ch
        THEN [matched |-> TRUE, r |-> NoPull, hp |-> FALSE, pb |-> putback]
        ELSE [matched |-> FALSE, r |-> NoPull, hp |-> TRUE, pb |-> putback]
    ELSE
        LET r == next_char
        IN  IF r.res = "Ok" /\ r.ch = ch
            THEN [matched |-> TRUE, r |-> r, hp |-> FALSE, pb |-> putback]
            ELSE IF r.res = "Ok"
            THEN [matched |-> FALSE, r |-> r, hp |-> TRUE, pb |-> r.ch]
            ELSE [matched |-> FALSE, r |-> r, hp |-> FALSE, pb |-> putback]

KeywordKind(word) == IF word = "null" THEN "Null" ELSE "Boolean"

KeywordLexeme(word) ==
    CASE word = "true" -> <<116, 114, 117, 101>>
      [] word = "false" -> <<102, 97, 108, 115, 101>>
      [] OTHER -> <<110, 117, 108, 108>>

KeywordError(word) ==
    CASE word = "true" -> "expected true"
      [] word = "false" -> "expected false"
      [] OTHER -> "expected null"

\* lines 155-181: one operand of the && chain
KeywordOutcome(m) ==
    IF m.r.res = "Panic" THEN OPanic(m.r.msg, m.hp, m.pb)
    ELSE IF ~m.matched THEN OErr(KeywordError(lexing.word), m.hp, m.pb)
    ELSE IF Len(lexing.rest) > 1 THEN
        OGo([lexing EXCEPT !.rest = Tail(@)], m.hp, m.pb)
    ELSE OTok(Token(KeywordLexeme(lexing.word), KeywordKind(lexing.word),
                    KeywordLexeme(lexing.word)), m.hp, m.pb)

(***************************************************************************)
(* The effect of a step of next_token with outcome o, r being the          *)
(* next_char call it made.  advance() (json.rs:158) unwraps the result:    *)
(* Ok(tok) becomes next, Err(msg) is a panic of parse().                    *)
(***************************************************************************)
\* an object or array has been entered and not left: the token asked for is
\* not the one after the root object's closing brace
OpenStructure ==
    \/ cont \in {"object", "member", "key", "value", "array", "element",
                 "string", "number", "boolean"}
    \/ (cont = "close" /\ Len(stack) > 1)

LexerStep(r, o, skip) ==
    /\ Pull(r)
    /\ has_putback' = o.hp
    /\ putback' = o.pb
    /\ lexing' = IF o.k = "Go" THEN o.lx
                 ELSE IF o.k = "Token" THEN IdleLexer
                 ELSE lexing
    /\ next' = IF o.k = "Token" THEN o.tok ELSE next
    /\ status' = IF o.k \in {"Err", "Panic"} THEN "panic" ELSE status
    /\ errmsg' = IF o.k \in {"Err", "Panic"} THEN o.msg ELSE errmsg
    /\ log' = [log EXCEPT
                 !.kept = IF ~skip THEN @ \o Take(file, r.used)
                          ELSE IF r.pulled THEN @
                          ELSE Take(@, Len(@) - 1),
                 !.lexerErr = IF o.k = "Err" THEN o.msg ELSE @,
                 !.tokFirst = IF lexing.pc = "start" /\ r.res = "Ok"
                                 /\ ~is_whitespace(r.ch)
                              THEN r.ch ELSE @,
                 !.eofOpen = @ \/ (r.pulled /\ AtEnd /\ OpenStructure),
                 !.gap = IF lexing.pc # "start" THEN @
                         ELSE IF skip THEN @ \/ ~r.pulled
                         ELSE FALSE,
                 !.joined = @ \/ (lexing.pc = "start" /\ log.gap /\ r.res = "Ok"
                                  /\ is_ascii_digit(r.ch)),
                 !.firstTok = IF o.k = "Token" /\ @ = "" THEN o.tok.type ELSE @,
                 !.handoff = IF o.k = "Token" /\ o.tok.type = "Number"
                             THEN [st |-> "pending", term |-> r.ch, got |-> 0,
                                   pulled |-> FALSE]
                             ELSE IF @.st = "pending"
                             THEN [@ EXCEPT !.st = "done",
                                            !.got = IF r.res = "Ok" THEN r.ch ELSE None,
                                            !.pulled = r.pulled]
                             ELSE @,
                 !.trailing = @ \/ (/\ o.k = "Token"
                                    /\ current.type = "Comma"
                                    /\ stack # <<>>
                                    /\ o.tok.type = IF stack[Len(stack)].kind = "object"
                                                    THEN "RightBrace"
                                                    ELSE "RightBracket")]
    /\ UNCHANGED <<current, cont, stack, result, runVars>>

LexerAt(pc) == status = "running" /\ lexing.pc = pc /\ SourceReady

LexStart ==
    /\ LexerAt("start")
    /\ LET r == next_char
       IN  LexerStep(r, AfterNextChar(r, StartOutcome(r.ch)),
                     r.res = "Ok" /\ r.ch \in PlainSpace)

LexString ==
    /\ LexerAt("string")
    /\ LET r == next_char
       IN  LexerStep(r, AfterNextChar(r, StringOutcome(r.ch)), FALSE)

LexNumber ==
    /\ LexerAt("number")
    /\ LET r == next_char
       IN  LexerStep(r, AfterNextChar(r, NumberOutcome(r.ch)), FALSE)

LexKeyword ==
    /\ LexerAt("keyword")
    /\ LET m == try_match_char(Head(lexing.rest))
       IN  LexerStep(m.r, KeywordOutcome(m), FALSE)

(***************************************************************************)
(* src/json.rs: values.  A value is [t |-> variant, v |-> payload]; an     *)
(* Object's payload is a function from keys to values (the HashMap), an    *)
(* Array's a sequence.                                                     *)
(***************************************************************************)
JsonString(s) == [t |-> "String", v |-> s]
JsonNumber(n) == [t |-> "Number", v |-> n]
JsonBoolean(b) == [t |-> "Boolean", v |-> b]
JsonObject(m) == [t |-> "Object", v |-> m]
JsonArray(a) == [t |-> "Array", v |-> a]
Nil == [t |-> "Nil", v |-> 0]

\* HashMap::insert: the value of an existing key is replaced
Insert(m, k, v) == [x \in (DOMAIN m) \cup {k} |-> IF x = k THEN v ELSE m[x]]

\* the decimal value of a run of ASCII digits
RECURSIVE Decimal(_)
Decimal(s) ==
    IF s = <<>> THEN 0
    ELSE 10 * Decimal(Take(s, Len(s) - 1)) + (s[Len(s)] - 48)

RECURSIVE Log2(_)
Log2(n) == IF n < 2 THEN 0 ELSE 1 + Log2(n \div 2)

\* the f32 nearest to the integer n (24 bits of mantissa, ties to even)
F32(n) ==
    IF n < Pow2(24) THEN n
    ELSE LET q == Pow2(Log2(n) - 23)
             lo == (n \div q) * q
             r == n - lo
         IN  IF 2 * r < q THEN lo
             ELSE IF 2 * r > q THEN lo + q
             ELSE IF (lo \div q) % 2 = 0 THEN lo
             ELSE lo + q

\* str::parse::<f32> of a Number lexeme, lines 128-135
ParseF32(lexeme) == F32(Decimal(lexeme))

\* str::parse::<bool> of a Boolean lexeme, lines 137-147
ParseBool(lexeme) == lexeme = <<116, 114, 117, 101>>

(***************************************************************************)
(* An activation of parse_object or parse_array: obj / arr are the locals  *)
(* of the rule, key the key parsed last.  members and refs are history:    *)
(* the members inserted and the elements pushed, in order, each with the   *)
(* value the source text denotes (ref).                                    *)
(***************************************************************************)
Frame(kind) == [kind |-> kind, obj |-> <<>>, arr |-> <<>>, key |-> <<>>,
                members |-> <<>>, refs |-> <<>>]

Top(stk) == stk[Len(stk)]
Pop(stk) == Take(stk, Len(stk) - 1)

\* the object that a sequence of members denotes: the last occurrence of a
\* key gives its value
Keys(members) == {members[i].key : i \in DOMAIN members}
LastOf(members, k) ==
    CHOOSE i \in DOMAIN members :
        /\ members[i].key = k
        /\ \A j \in DOMAIN members : members[j].key = k => j <= i
RefObject(members) == [k \in Keys(members) |-> members[LastOf(members, k)].ref]

(***************************************************************************)
(* What a step of the parser comes to: a call of advance() that returns to *)
(* cont ("Advance"; unwrap tells whether the caller unwraps its result),   *)
(* the Err result of parse() ("Err") or its Ok result ("Ok").              *)
(***************************************************************************)
PAdvance(c, unwrap, stk, lg) ==
    [k |-> "Advance", cont |-> c, unwrap |-> unwrap, stack |-> stk, log |-> lg]
PErr(msg, stk, lg) == [k |-> "Err", msg |-> msg, stack |-> stk, log |-> lg]
POk(v, stk, lg) == [k |-> "Ok", value |-> v, stack |-> stk, log |-> lg]

\* a push at the front of the vector
arr_push_front(arr, v) == <<v>> \o arr

\* Vec::push, line 106
arr_push(arr, v) == Append(arr, v)

\* JsonParser::peek, lines 149-151
peek == next

\* consume without its check of the lookahead's kind
consume_any_kind(expected, msg, c, stk, lg) == PAdvance(c, FALSE, stk, lg)

\* JsonParser::consume, lines 172-182, returning to c
consume(expected, msg, c, stk, lg) ==
    IF next.type = expected THEN PAdvance(c, FALSE, stk, lg)
    ELSE PErr(msg, stk, lg)

\* a try_match that advances whatever the lookahead is
try_match_any_kind(token_type) == TRUE

\* JsonParser::try_match, lines 163-170: whether it advances
try_match(token_type) == next.type = token_type

\* parse_object lines 80-90 and parse_array lines 106-114: the rule has the
\* value v of parse_value and looks for a separator
AfterValue(stk, v, ref, lg) ==
    LET top == Top(stk)
        n == Len(stk)
        lg2 == [lg EXCEPT !.lastValue = v.t]
    IN  IF top.kind = "object" THEN
            LET stk2 == [stk EXCEPT ![n].obj = Insert(@, top.key, v),
                                    ![n].members =
                                        Append(@, [key |-> top.key, val |-> v, ref |-> ref])]
            IN  IF try_match("Comma") THEN PAdvance("member", TRUE, stk2, lg2)
                ELSE IF try_match("RightBrace") THEN PAdvance("close", TRUE, stk2, lg2)
                ELSE PErr("Expected ',' or '}'", stk2, lg2)
        ELSE
            LET stk2 == [stk EXCEPT ![n].arr = arr_push(@, v),
                                    ![n].refs = Append(@, ref)]
            IN  IF try_match("Comma") THEN PAdvance("element", TRUE, stk2, lg2)
                ELSE IF try_match("RightBracket") THEN PAdvance("close", TRUE, stk2, lg2)
                ELSE PErr("Expected ',' or ']'", stk2, lg2)

\* a parse_value that takes whatever token the lookahead is for a string
parse_value_unchecked(stk, lg) == PAdvance("string", FALSE, stk, lg)

\* JsonParser::parse_value, lines 46-62
parse_value(stk, lg) ==
    CASE peek.type = "String" -> consume("String", "Expected string", "string", stk, lg)
      [] peek.type = "Number" -> consume("Number", "Expected number", "number", stk, lg)
      [] peek.type = "LeftBrace" -> PAdvance("object", FALSE, stk, lg)
      [] peek.type = "LeftBracket" -> PAdvance("array", FALSE, stk, lg)
      [] peek.type = "Boolean" -> consume("Boolean", "Expected boolean", "boolean", stk, lg)
      [] peek.type = "Null" -> AfterValue(stk, Nil, Nil, lg)
      [] OTHER -> PErr("Unexpected input", stk, lg)

\* a member loop that lets the object end after a ','
parse_member_or_end(stk, lg) ==
    IF next.type = "RightBrace" THEN PAdvance("close", FALSE, stk, lg)
    ELSE consume("String", "Expected string", "key", stk, lg)

\* parse_object, lines 72-77: the head of the member loop
parse_member(stk, lg) == consume("String", "Expected string", "key", stk, lg)

\* parse_object, lines 64-70
parse_object(stk, lg) ==
    LET stk2 == Append(stk, Frame("object"))
    IN  IF peek.type = "RightBrace" THEN PAdvance("close", FALSE, stk2, lg)
        ELSE parse_member(stk2, lg)

\* parse_array, lines 96-105
parse_array(stk, lg) ==
    LET stk2 == Append(stk, Frame("array"))
    IN  IF peek.type = "RightBracket" THEN PAdvance("close", FALSE, stk2, lg)
        ELSE parse_value(stk2, lg)

\* the key is in current (parse_string, lines 120-126); then the ':'
parse_key(stk, lg) ==
    consume("Colon", "Expected ':' after object key", "value",
            [stk EXCEPT ![Len(stk)].key = current.lex], lg)

\* parse_string, parse_number, parse_boolean: the token is in current
parse_string(stk, lg) ==
    AfterValue(stk, JsonString(current.lex), JsonString(current.src), lg)

parse_number(stk, lg) ==
    AfterValue(stk, JsonNumber(ParseF32(current.lex)), JsonNumber(Decimal(current.src)),
               [lg EXCEPT !.nums = Append(@, [src |-> current.src,
                                              val |-> ParseF32(current.lex)])])

parse_boolean(stk, lg) ==
    AfterValue(stk, JsonBoolean(ParseBool(current.lex)),
               JsonBoolean(ParseBool(current.src)), lg)

\* the closing bracket is in current: the rule returns its value to the
\* rule that called it, or to parse()
close(stk, lg) ==
    LET top == Top(stk)
        v == IF top.kind = "object" THEN JsonObject(top.obj) ELSE JsonArray(top.arr)
        ref == IF top.kind = "object" THEN JsonObject(RefObject(top.members))
               ELSE JsonArray(top.refs)
    IN  IF Len(stk) = 1
        THEN POk(v, stk, [lg EXCEPT !.members = top.members, !.ref = ref])
        ELSE AfterValue(Pop(stk), v, ref, lg)

(***************************************************************************)
(* The effect of a step of the parser with outcome o.  advance(), lines    *)
(* 153-161, fails when current is EOF, else shifts next into current and   *)
(* calls next_token.                                                       *)
(***************************************************************************)
advance_fails == current.type = "EOF"

ParserStep(o) ==
    /\ stack' = o.stack
    /\ log' = o.log
    /\ IF o.k = "Advance" /\ ~advance_fails THEN
           /\ current' = next
           /\ lexing' = [IdleLexer EXCEPT !.pc = "start"]
           /\ cont' = o.cont
           /\ UNCHANGED <<next, status, errmsg, result>>
       ELSE
           /\ status' = CASE o.k = "Advance" -> IF o.unwrap THEN "panic" ELSE "err"
                          [] o.k = "Err" -> "err"
                          [] OTHER -> "ok"
           /\ errmsg' = CASE o.k = "Advance" -> "unexpected EOF"
                          [] o.k = "Err" -> o.msg
                          [] OTHER -> errmsg
           /\ result' = IF o.k = "Ok" THEN o.value ELSE result
           /\ UNCHANGED <<current, next, lexing, cont>>
    /\ UNCHANGED <<envVars, putback, has_putback, lastRead, runVars>>

ParserAt(c) == status = "running" /\ lexing.pc = "idle" /\ cont = c

\* JsonParser::parse, line 185
Parse == ParserAt("parse") /\ ParserStep(PAdvance("primed", FALSE, stack, log))

\* JsonParser::parse, lines 186-191
ParsePrimed ==
    /\ ParserAt("primed")
    /\ ParserStep(consume("LeftBrace", "Expected '{' at start of object",
                          "object", stack, log))

ParseObject == ParserAt("object") /\ ParserStep(parse_object(stack, log))
ParseMember == ParserAt("member") /\ ParserStep(parse_member(stack, log))
ParseKey == ParserAt("key") /\ ParserStep(parse_key(stack, log))
ParseValue == ParserAt("value") /\ ParserStep(parse_value(stack, log))
ParseArray == ParserAt("array") /\ ParserStep(parse_array(stack, log))
ParseElement == ParserAt("element") /\ ParserStep(parse_value(stack, log))
ParseString == ParserAt("string") /\ ParserStep(parse_string(stack, log))
ParseNumber == ParserAt("number") /\ ParserStep(parse_number(stack, log))
ParseBoolean == ParserAt("boolean") /\ ParserStep(parse_boolean(stack, log))
ParseClose == ParserAt("close") /\ ParserStep(close(stack, log))

(***************************************************************************)
(* The specification: JsonParser::new_from_string / new, then parse().     *)
(***************************************************************************)
NoToken == Token(<<>>, "None", <<>>)

\* history of the parse: kept, the bytes read less the plain whitespace
\* skipped between tokens; lexerErr, the Err next_token returned; tokFirst,
\* the first character of the token lexed last; eofOpen, the source ran out
\* inside an open object or array; nums, the Number tokens converted;
\* lastValue, the variant parse_value returned last; members and ref, the
\* root object's members and the value its text denotes; gap, only plain
\* whitespace was skipped since a Number token ended; joined, such a gap was
\* followed by a digit; firstTok, the kind of the first token next_token
\* returned; handoff, the character that ended the Number token returned
\* last (term) and, once next_token has been called again, the character
\* its first next_char gave (got) and whether that was pulled from the
\* source; trailing, the token after a ',' was the closing bracket of the
\* object or array the ',' stands in
NoHandoff == [st |-> "none", term |-> 0, got |-> 0, pulled |-> FALSE]

EmptyLog == [kept |-> <<>>, lexerErr |-> "", tokFirst |-> -1, eofOpen |-> FALSE,
             nums |-> <<>>, lastValue |-> "", members |-> <<>>, ref |-> Nil,
             gap |-> FALSE, joined |-> FALSE, firstTok |-> "",
             handoff |-> NoHandoff, trailing |-> FALSE]

NoFirst == [status |-> "", result |-> Nil, consumed |-> <<>>, kept |-> <<>>,
            joined |-> FALSE]

InitWith(chunks) ==
    /\ vocab = chunks
    /\ pass = 1
    /\ first = NoFirst
    /\ file = <<>>
    /\ closed = FALSE
    /\ fed = 0
    /\ consumed = <<>>
    /\ putback = 0
    /\ has_putback = FALSE
    /\ lexing = IdleLexer
    /\ current = NoToken
    /\ next = NoToken
    /\ cont = "parse"
    /\ stack = <<>>
    /\ status = "running"
    /\ errmsg = ""
    /\ result = Nil
    /\ lastRead = NoRead
    /\ log = EmptyLog

Init == InitWith(Vocabulary)

Next ==
    \/ Feed
    \/ EndOfSource
    \/ LexStart
    \/ LexString
    \/ LexNumber
    \/ LexKeyword
    \/ Parse
    \/ ParsePrimed
    \/ ParseObject
    \/ ParseMember
    \/ ParseKey
    \/ ParseValue
    \/ ParseArray
    \/ ParseElement
    \/ ParseString
    \/ ParseNumber
    \/ ParseBoolean
    \/ ParseClose

Spec == Init /\ [][Next]_vars

\* parse() runs on: a source that is pulled from answers, and a step of
\* the lexer or parser that can be taken is taken
InitString == InitWith(StringVocabulary)
FairSpec == InitString /\ [][Next]_vars /\ WF_vars(Next)

(***************************************************************************)
(* The same parser on the input less its whitespace: when parse() has      *)
(* ended and plain whitespace was skipped between tokens, a new            *)
(* JsonParser is made on the bytes read less that whitespace, followed by  *)
(* the rest of the source.                                                 *)
(***************************************************************************)
Restart ==
    /\ status # "running"
    /\ pass = 1
    /\ log.kept # consumed
    /\ pass' = 2
    /\ first' = [status |-> status, result |-> result, consumed |-> consumed,
                 kept |-> log.kept, joined |-> log.joined]
    /\ file' = log.kept \o file
    /\ consumed' = <<>>
    /\ putback' = 0
    /\ has_putback' = FALSE
    /\ lexing' = IdleLexer
    /\ current' = NoToken
    /\ next' = NoToken
    /\ cont' = "parse"
    /\ stack' = <<>>
    /\ status' = "running"
    /\ errmsg' = ""
    /\ result' = Nil
    /\ lastRead' = NoRead
    /\ log' = EmptyLog
    /\ UNCHANGED <<closed, fed, vocab>>

\* parse() on the inputs with arrays of several elements
InitArray == InitWith(ArrayVocabulary)
ArraySpec == InitArray /\ [][Next]_vars

InitSpace == InitWith(SpaceVocabulary)
NextSpace == Next \/ Restart
SpaceSpec == InitSpace /\ [][NextSpace]_vars

(***************************************************************************)
(* UTF-8 as the Unicode standard defines it, for stating what the decoder  *)
(* is to return.                                                           *)
(***************************************************************************)
IsContinuation(b) == b \in 128..191

WellFormed(bs) ==
    \/ Len(bs) = 1 /\ bs[1] \in 0..127
    \/ Len(bs) = 2 /\ bs[1] \in 194..223 /\ IsContinuation(bs[2])
    \/ /\ Len(bs) = 3
       /\ bs[1] \in 224..239
       /\ IsContinuation(bs[2]) /\ IsContinuation(bs[3])
       /\ (bs[1] = 224 => bs[2] >= 160)
       /\ (bs[1] = 237 => bs[2] <= 159)
    \/ /\ Len(bs) = 4
       /\ bs[1] \in 240..244
       /\ IsContinuation(bs[2]) /\ IsContinuation(bs[3]) /\ IsContinuation(bs[4])
       /\ (bs[1] = 240 => bs[2] >= 144)
       /\ (bs[1] = 244 => bs[2] <= 143)

ScalarValue(bs) ==
    CASE Len(bs) = 1 -> bs[1]
      [] Len(bs) = 2 -> (bs[1] % 32) * 64 + (bs[2] % 64)
      [] Len(bs) = 3 -> (bs[1] % 16) * 4096 + (bs[2] % 64) * 64 + (bs[3] % 64)
      [] OTHER -> (bs[1] % 8) * 262144 + (bs[2] % 64) * 4096
                  + (bs[3] % 64) * 64 + (bs[4] % 64)

IsLetter(c) == c \in (65..90) \cup (97..122)

(***************************************************************************)
(* The claims.                                                             *)
(***************************************************************************)

\* C1: a successful parse gives every value written as a run of digits the
\* decimal value of exactly those digits (each source digit once).
C1_NumberIsDecimalOfDigits ==
    status = "ok" =>
        \A i \in DOMAIN log.nums : log.nums[i].val = Decimal(log.nums[i].src)

\* C2: a root object member whose value is null, followed by ',' or '}', is
\* accepted: the parse does not fail at it.
NullMember ==
    /\ log.lastValue = "Nil"
    /\ next.type = "Null"
    /\ Len(stack) = 1 /\ Top(stack).kind = "object"
    /\ file # <<>> /\ file[1] \in {44, 125}
C2_NullMemberAccepted == NullMember => status # "err"

\* C3: every failure of the lexer is the Err text of parse(), and parse()
\* never panics.
C3_LexerFailureIsErr ==
    /\ status # "panic"
    /\ (log.lexerErr # "" => status = "err" /\ errmsg = log.lexerErr)

\* C4: parse() terminates on every input, with a value or an error.
C4_ParseTerminates == <>(status # "running")

\* C5: when the token at a member key's place begins with a letter (an
\* unquoted key), parse() ends with the error "Expected string".
UnquotedKey ==
    /\ status # "running"
    /\ cont \in {"object", "member"}
    /\ IsLetter(log.tokFirst)
C5_UnquotedKeyExpectedString ==
    UnquotedKey => (status = "err" /\ errmsg = "Expected string")

\* C6: parse() gives the same result (the same value, or a failure both
\* times) for an input and for that input less the spaces, tabs and
\* newlines between its tokens.
SameResult ==
    \/ (first.status = "ok" /\ status = "ok" /\ first.result = result)
    \/ (first.status # "ok" /\ status # "ok")
SecondPassEnded == pass = 2 /\ status # "running"
C6_WhitespaceIrrelevant == SecondPassEnded => SameResult

\* C6 as amended: the same, for the inputs in which no whitespace that is
\* removed stands between two digits.
C6_WhitespaceIrrelevantUnlessDigitsJoin ==
    (SecondPassEnded /\ ~first.joined) => SameResult

\* a value was parsed from an input with whitespace between its tokens, none
\* of it between digits, and again from the input less that whitespace
C6_Witness ==
    /\ SecondPassEnded
    /\ ~first.joined
    /\ first.status = "ok" /\ status = "ok"
    /\ first.kept # first.consumed
    /\ first.result.v # <<>>

\* C7: when the input ends while an object or array is open, parse() ends
\* with an error, never with a value.
C7_EofWhileOpenIsErr ==
    (log.eofOpen /\ status # "running") => status = "err"

\* C8: a successful parse returns an Object whose keys are exactly the keys
\* written in the root object, each mapped to the value its last occurrence
\* has in the source.
C8_KeysAndLastValues ==
    status = "ok" =>
        /\ result.t = "Object"
        /\ DOMAIN result.v = Keys(log.members)
        /\ \A k \in Keys(log.members) :
               result.v[k] = log.members[LastOf(log.members, k)].ref

\* C9: for a well-formed UTF-8 sequence the decoder returns the scalar value
\* the sequence encodes.
C9_DecodesScalarValue ==
    (lastRead.res # "none" /\ WellFormed(lastRead.bytes)) =>
        (lastRead.res = "Ok" /\ lastRead.ch = ScalarValue(lastRead.bytes))

\* C10: a continuation byte where a lead byte is expected, and a multi-byte
\* sequence cut off by the end of the source, fail with "Invalid UTF-8".
ContinuationAsLead == lastRead.bytes # <<>> /\ IsContinuation(lastRead.bytes[1])
CutOff ==
    /\ lastRead.bytes # <<>>
    /\ lastRead.atEnd
    /\ Len(lastRead.bytes) < 1 + TailCount(lastRead.bytes[1])
C10_InvalidUtf8 ==
    (ContinuationAsLead \/ CutOff) =>
        (lastRead.res = "Err" /\ lastRead.msg = "Invalid UTF-8")

\* C11: when parse() returns Ok the whole token stream has been consumed:
\* the lookahead token is EOF.
C11_OkConsumesAllTokens == status = "ok" => next.type = "EOF"

\* C12: when the first token of the input is not '{', parse() fails with
\* "Expected '{' at start of object" and returns no value: once that token
\* is the lookahead, the only thing parse() does is return that error.
FirstTokenNotBrace == log.firstTok \notin {"", "LeftBrace"}
C12_RootMustBeObject ==
    FirstTokenNotBrace =>
        /\ result = Nil
        /\ \/ (status = "running" /\ cont = "primed" /\ lexing.pc = "idle")
           \/ (status = "err" /\ errmsg = "Expected '{' at start of object")

\* parse() has failed on an input that begins with '['
C12_Witness ==
    /\ log.firstTok = "LeftBracket"
    /\ status = "err"
    /\ errmsg = "Expected '{' at start of object"

\* C13: on a successful parse every Array value holds one element per
\* element written in the source array, in the order written: element i is
\* the value of the i-th element written (v is the value returned, ref the
\* value the source text denotes; what number a run of digits gives is C1).
RECURSIVE ArraysAsWritten(_, _)
ArraysAsWritten(v, ref) ==
    /\ v.t = ref.t
    /\ CASE v.t = "Array" ->
              /\ Len(v.v) = Len(ref.v)
              /\ \A i \in DOMAIN v.v : ArraysAsWritten(v.v[i], ref.v[i])
         [] v.t = "Object" ->
              /\ DOMAIN v.v = DOMAIN ref.v
              /\ \A k \in DOMAIN v.v : ArraysAsWritten(v.v[k], ref.v[k])
         [] v.t = "Number" -> TRUE
         [] OTHER -> v.v = ref.v
C13_ArrayOrderPreserved == status = "ok" => ArraysAsWritten(result, log.ref)

\* a parse has returned an array of two or more elements, the first two of
\* them different
C13_Witness ==
    /\ status = "ok"
    /\ \E k \in DOMAIN result.v :
          /\ result.v[k].t = "Array"
          /\ Len(result.v[k].v) >= 2
          /\ result.v[k].v[1] # result.v[k].v[2]

\* C14: next_char gives the character 0 only when the byte source is
\* exhausted: no byte or byte sequence of the input is turned into it.
C14_SentinelOnlyAtEnd ==
    (lastRead.res = "Ok" /\ lastRead.ch = 0) => lastRead.bytes = <<>>

\* C15: the lexeme of a String token is the characters up to the next
\* unescaped '"': the '"' that ended the token is not preceded by a
\* backslash (by an odd run of them), and the lexeme is the characters read.
RECURSIVE TrailingBackslashes(_)
TrailingBackslashes(s) ==
    IF s = <<>> \/ s[Len(s)] # 92 THEN 0
    ELSE 1 + TrailingBackslashes(Take(s, Len(s) - 1))
C15_StringEndsAtUnescapedQuote ==
    next.type = "String" =>
        /\ next.lex = next.src
        /\ TrailingBackslashes(next.lex) % 2 = 0

\* C16: putback() is never called while a pushed-back character is pending,
\* so "putback called twice" never happens: wherever next_token can push a
\* character back (inside a string, a number or a keyword, after its first
\* next_char) the pushback slot is empty.
C16_PutbackNeverTwice ==
    /\ ~(status = "panic" /\ errmsg = "putback called twice")
    /\ ((status = "running" /\ lexing.pc \in {"string", "number", "keyword"})
           => ~has_putback)

\* a character is pushed back after a Number token, and a character is
\* pushed back by the mismatch of a keyword
C16_Witness ==
    \/ (has_putback /\ next.type = "Number" /\ lexing.pc = "idle" /\ status = "running")
    \/ (has_putback /\ log.lexerErr = "expected true")

\* C17: after a Number token the character that ended the digit run is in
\* the pushback slot, and it is the first character the next call of
\* next_token gets, without a pull from the source: no character is dropped
\* between the number and the token after it.
C17_NumberTerminatorHandedOn ==
    /\ (log.handoff.st = "pending" =>
            (has_putback /\ putback = log.handoff.term))
    /\ (log.handoff.st = "done" =>
            (log.handoff.got = log.handoff.term /\ ~log.handoff.pulled))

\* next_token has returned a Number and then the Comma that ended it, and a
\* Number and then the EOF token at the end of the input
C17_Witness ==
    /\ log.handoff.st = "done"
    /\ \/ (log.handoff.term = 44 /\ next.type = "Comma")
       \/ (log.handoff.term = 0 /\ next.type = "EOF")

\* C18: try_match(kind) advances, and returns true, exactly when the
\* lookahead has that kind; when it returns false, and when consume finds
\* another kind and returns its msg, current, next and the lexer (bytes
\* read, pushback slot) are left as they were.
ParserReturnsErr == status = "running" /\ status' = "err"
Advances == current' = next /\ lexing'.pc = "start"
Closer(kind) == IF kind = "object" THEN "RightBrace" ELSE "RightBracket"
AfterScalar == status = "running" /\ lexing.pc = "idle"
               /\ cont \in {"string", "number", "boolean"}
ConsumeAt(c, kind, msg) ==
    (status = "running" /\ lexing.pc = "idle" /\ cont = c /\ next.type # kind)
        => (status' = "err" /\ errmsg' = msg)
C18_TryMatchAndConsumeFrame ==
    [][ /\ ParserReturnsErr =>
               UNCHANGED <<current, next, file, consumed, putback, has_putback, lexing>>
        /\ AfterScalar =>
               LET kind == Top(stack).kind
               IN  /\ Advances <=> next.type \in {"Comma", Closer(kind)}
                   /\ next.type = "Comma" =>
                          cont' = IF kind = "object" THEN "member" ELSE "element"
                   /\ next.type = Closer(kind) => cont' = "close"
                   /\ next.type \notin {"Comma", Closer(kind)} => ParserReturnsErr
        /\ ConsumeAt("primed", "LeftBrace", "Expected '{' at start of object")
        /\ ConsumeAt("member", "String", "Expected string")
        /\ ConsumeAt("key", "Colon", "Expected ':' after object key")
      ]_vars

\* try_match has returned false twice after a member's value, the lookahead
\* being a String, and parse_object has returned its error
C18_Witness ==
    /\ status = "err"
    /\ errmsg = "Expected ',' or '}'"
    /\ current.type \in {"String", "Number", "Boolean"}
    /\ next.type = "String"

\* C19: an object in which ',' is directly followed by '}', and an array in
\* which ',' is directly followed by ']', is rejected with an error and
\* gives no value.
C19_TrailingCommaRejected ==
    log.trailing =>
        /\ result = Nil
        /\ \/ (status = "running" /\ lexing.pc = "idle" /\ cont \in {"member", "element"})
           \/ (status = "err" /\ errmsg \in {"Expected string", "Unexpected input"})

\* parse() has failed at the '}' that follows a ',' in an object
C19_Witness ==
    /\ log.trailing
    /\ status = "err"
    /\ errmsg = "Expected string"
    /\ current.type = "Comma"
    /\ next.type = "RightBrace"

\* C20: the parser never advances past the end of input: current is never
\* the EOF token, advance() never returns "unexpected EOF", and once the
\* lookahead is EOF the lexer is not called again.
C20_NeverAdvancesPastEof ==
    /\ current.type # "EOF"
    /\ errmsg # "unexpected EOF"
    /\ (next.type = "EOF" => lexing.pc = "idle")

\* parse() has ended with EOF as its lookahead
C20_Witness ==
    /\ next.type = "EOF"
    /\ status \in {"ok", "err"}
    /\ current.type # "None"

=============================================================================
